---- MODULE Spec2Model ----
(***************************************************************************)
(* Execution-metrics core of the career-planning agent                     *)
(* (src/observability.py): ExecutionMetrics records, WorkflowMetrics       *)
(* batches, the MetricsCollector registry, and the parallel-efficiency     *)
(* calculation.                                                            *)
(*                                                                         *)
(* Objects are mutable and shared by reference in the program, so the      *)
(* model keeps two heaps (records, batches) and refers to objects by their *)
(* index in the heap.  Timestamps are integer clock ticks; durations are   *)
(* binary floating-point numbers, rounded to nearest-even after every      *)
(* arithmetic step as Python's float is, with a mantissa of MantissaBits   *)
(* bits instead of 53.                                                     *)
(***************************************************************************)
EXTENDS Integers, Sequences, FiniteSets, TLC

VARIABLES
    now,        \* the wall clock read by datetime.now(), in ticks
    records,    \* heap of ExecutionMetrics objects (index = identity)
    batches,    \* heap of WorkflowMetrics objects (index = identity)
    workflows,  \* MetricsCollector.workflows: sequence of batch identities
    last,       \* the last call made: its name, arguments and outcome
    pc,         \* main thread's position in run_parallel_agents
    futures,    \* the Future of each submitted task
    parallel_results,   \* the dict run_parallel_agents fills in
    exc,        \* the exception propagating out of the with block, if any
    outcome,    \* what run_parallel_agents handed to its caller, if it has
    log,        \* the records written to the logger, in order
    mainpc,     \* the phase main() is in
    spc,        \* main thread's position in run_serial_agents
    target_programs,    \* student.target_programs
    serial_calls,   \* the agent calls run_serial_agents made: starts and outcomes
    serial_results, \* the dict run_serial_agents fills in
    files,      \* the files main() has opened for writing
    raised      \* the exception main()'s try block raised, if any

obsVars == <<now, records, batches, workflows, last>>
parVars == <<pc, futures, parallel_results, exc, outcome, log>>
mainVars == <<mainpc, spc, target_programs, serial_calls, serial_results, files, raised>>
vars == <<now, records, batches, workflows, last, pc, futures, parallel_results, exc, outcome, log, mainpc, spc, target_programs, serial_calls, serial_results, files, raised>>

---------------------------------------------------------------------------
(* Bounds of the model.                                                    *)

MaxCalls == 5           \* clock ticks, constructor, add and finalize_workflow calls
MantissaBits == 5       \* significant bits of a float (binary64 has 53)
TicksPerSecond == 10    \* clock resolution (datetime has 10^6 per second)
MaxBatchRecords == 3    \* records constructed in SpecBatch
MaxBatchAdds == 3       \* add_agent_metrics calls in SpecBatch
MaxMixedAgents == 4     \* records of a batch of unequal durations in SpecEff
MaxEqualAgents == 6     \* records of a batch of equal durations in SpecEff
MaxRecRecords == 2      \* records constructed in SpecRec
MaxRecAdds == 2         \* add_agent_metrics calls in SpecRec
MaxSumTime == 3         \* latest clock reading in SpecSum
MaxSumRegistered == 2   \* finalize_workflow calls in SpecSum
MaxPrograms == 3        \* length of student.target_programs in SpecSer
MaxKindAgents == 2      \* records of each of the two batches in SpecKind

---------------------------------------------------------------------------
(* Python values.                                                          *)

None == <<>>                    \* an unset optional field
Some(x) == <<x>>                \* a set optional field
Truthy(opt) == opt # None       \* `if self.end_time:` (a datetime is never falsy)

AgentType == {"serial", "parallel", "coordinator"}

---------------------------------------------------------------------------
(* Floating point.  A float is the rational n/d in lowest terms, d a power *)
(* of two.  Round gives the float nearest to an exact rational, ties to    *)
(* even, as IEEE 754 arithmetic does for +, *, / and int/int division.     *)

RECURSIVE Pow2(_)
Pow2(k) == IF k = 0 THEN 1 ELSE 2 * Pow2(k - 1)

RECURSIVE Reduce(_, _)
Reduce(n, d) ==
    IF n = 0 THEN [n |-> 0, d |-> 1]
    ELSE IF d > 1 /\ n % 2 = 0 THEN Reduce(n \div 2, d \div 2)
    ELSE [n |-> n, d |-> d]

RECURSIVE RoundPos(_, _, _)
RoundPos(num, den, k) ==
    \* num/den > 0 is the exact value divided by 2^k
    IF num >= den * Pow2(MantissaBits) THEN RoundPos(num, den * 2, k + 1)
    ELSE IF num < den * Pow2(MantissaBits - 1) THEN RoundPos(num * 2, den, k - 1)
    ELSE LET m == num \div den
             r == num % den
             up == 2 * r > den \/ (2 * r = den /\ m % 2 = 1)
             mr == IF up THEN m + 1 ELSE m
         IN  IF k >= 0 THEN [n |-> mr * Pow2(k), d |-> 1]
             ELSE Reduce(mr, Pow2(-k))

Round(num, den) ==
    \* den > 0
    IF num = 0 THEN [n |-> 0, d |-> 1]
    ELSE IF num > 0 THEN RoundPos(num, den, 0)
    ELSE LET p == RoundPos(-num, den, 0) IN [n |-> -p.n, d |-> p.d]

FromInt(i) == Round(i, 1)
FZero == [n |-> 0, d |-> 1]
FAdd(a, b) == Round(a.n * b.d + b.n * a.d, a.d * b.d)
FMul(a, b) == Round(a.n * b.n, a.d * b.d)
FDiv(a, b) ==
    \* b # 0
    IF b.n > 0 THEN Round(a.n * b.d, a.d * b.n)
    ELSE Round(-(a.n * b.d), a.d * (-b.n))
FLess(a, b) == a.n * b.d < b.n * a.d
FIsZero(a) == a.n = 0

\* timedelta.total_seconds(): ticks / ticks-per-second, one rounded division
TotalSeconds(delta) == Round(delta, TicksPerSecond)

---------------------------------------------------------------------------
(* ExecutionMetrics: one unit of work.                                     *)

ExecutionMetrics(agent_name, agent_type, start_time, end_time, duration, success, error_message, inputs_size, outputs_size) ==
    [agent_name |-> agent_name, agent_type |-> agent_type,
     start_time |-> start_time, end_time |-> end_time, duration |-> duration,
     success |-> success, error_message |-> error_message,
     inputs_size |-> inputs_size, outputs_size |-> outputs_size]

\* mutant: the operands of the subtraction are swapped
calculate_duration_swapped(m) ==
    IF Truthy(m.end_time)
    THEN [m EXCEPT !.duration = TotalSeconds(m.start_time - m.end_time[1])]
    ELSE m

calculate_duration(m) ==
    IF Truthy(m.end_time)
    THEN [m EXCEPT !.duration = TotalSeconds(m.end_time[1] - m.start_time)]
    ELSE m

---------------------------------------------------------------------------
(* WorkflowMetrics: a batch of records.  agents holds record identities.   *)

WorkflowMetrics(workflow_name, start_time) ==
    [workflow_name |-> workflow_name, start_time |-> start_time,
     end_time |-> None, duration |-> FZero, agents |-> <<>>,
     total_inputs_size |-> 0, total_outputs_size |-> 0,
     success |-> TRUE, error_message |-> ""]

\* mutant: the outputs total is overwritten instead of incremented
add_agent_metrics_overwrites(w, r, metrics) ==
    [w EXCEPT !.agents = Append(@, r),
              !.total_inputs_size = @ + metrics.inputs_size,
              !.total_outputs_size = metrics.outputs_size]

\* mutant: the batch fails when a failed record is added
add_agent_metrics_derives_success(w, r, metrics) ==
    [w EXCEPT !.agents = Append(@, r),
              !.total_inputs_size = @ + metrics.inputs_size,
              !.total_outputs_size = @ + metrics.outputs_size,
              !.success = @ /\ metrics.success,
              !.error_message = IF metrics.success THEN @ ELSE metrics.error_message]

\* mutant: the record is put at the head of the list
add_agent_metrics_prepends(w, r, metrics) ==
    [w EXCEPT !.agents = <<r>> \o @,
              !.total_inputs_size = @ + metrics.inputs_size,
              !.total_outputs_size = @ + metrics.outputs_size]

add_agent_metrics(w, r, metrics) ==
    [w EXCEPT !.agents = Append(@, r),
              !.total_inputs_size = @ + metrics.inputs_size,
              !.total_outputs_size = @ + metrics.outputs_size]

\* mutant: the duration is never computed
finalize_skips(w) == w

finalize(w) ==
    IF Truthy(w.end_time)
    THEN [w EXCEPT !.duration = TotalSeconds(w.end_time[1] - w.start_time)]
    ELSE w

\* the durations of the records of w, in the order of w.agents
Durations(w, heap) == [i \in 1..Len(w.agents) |-> heap[w.agents[i]].duration]

RECURSIVE MaxOf(_, _, _)
MaxOf(ds, i, best) ==
    \* max(): the first of the largest elements
    IF i > Len(ds) THEN best
    ELSE MaxOf(ds, i + 1, IF FLess(best, ds[i]) THEN ds[i] ELSE best)

RECURSIVE SumOf(_, _, _)
SumOf(ds, i, acc) ==
    \* sum(): left to right from 0, each addition rounded
    IF i > Len(ds) THEN acc ELSE SumOf(ds, i + 1, FAdd(acc, ds[i]))

Ok(v) == [err |-> "none", ret |-> v]
Raise(e) == [err |-> e, ret |-> FZero]

EfficiencyGuard(total_agent_duration) == FIsZero(total_agent_duration)

\* mutant: the slowest record's duration is not multiplied by the record count
get_parallel_efficiency_no_count(w, heap) ==
    IF w.agents = <<>> THEN Ok(FZero)
    ELSE LET ds == Durations(w, heap)
             max_agent_duration == MaxOf(ds, 2, ds[1])
             total_agent_duration == SumOf(ds, 1, FZero)
         IN  IF EfficiencyGuard(total_agent_duration) THEN Ok(FZero)
             ELSE IF FIsZero(max_agent_duration) THEN Raise("ZeroDivisionError")
             ELSE Ok(FMul(FDiv(total_agent_duration, max_agent_duration), FromInt(100)))

\* mutant: the empty batch is not told apart, and max() of no durations fails
get_parallel_efficiency_no_empty_case(w, heap) ==
    LET ds == Durations(w, heap)
        max_agent_duration == IF ds = <<>> THEN FZero ELSE MaxOf(ds, 2, ds[1])
        total_agent_duration == SumOf(ds, 1, FZero)
        denominator == FMul(max_agent_duration, FromInt(Len(w.agents)))
    IN  IF ds = <<>> THEN Raise("ValueError")
        ELSE IF EfficiencyGuard(total_agent_duration) THEN Ok(FZero)
        ELSE IF FIsZero(denominator) THEN Raise("ZeroDivisionError")
        ELSE Ok(FMul(FDiv(total_agent_duration, denominator), FromInt(100)))

get_parallel_efficiency(w, heap) ==
    IF w.agents = <<>> THEN Ok(FZero)
    ELSE LET ds == Durations(w, heap)
             max_agent_duration == MaxOf(ds, 2, ds[1])
             total_agent_duration == SumOf(ds, 1, FZero)
             denominator == FMul(max_agent_duration, FromInt(Len(w.agents)))
         IN  IF EfficiencyGuard(total_agent_duration) THEN Ok(FZero)
             ELSE IF FIsZero(denominator) THEN Raise("ZeroDivisionError")
             ELSE Ok(FMul(FDiv(total_agent_duration, denominator), FromInt(100)))

---------------------------------------------------------------------------
(* Serialization.                                                          *)

isoformat(t) == <<"iso8601", t>>
IsoOrNull(opt) == IF Truthy(opt) THEN isoformat(opt[1]) ELSE <<"null">>

agent_to_dict(m) ==
    [agent_name |-> m.agent_name, agent_type |-> m.agent_type,
     start_time |-> isoformat(m.start_time), end_time |-> IsoOrNull(m.end_time),
     duration_seconds |-> m.duration, success |-> m.success,
     error_message |-> m.error_message,
     inputs_size_bytes |-> m.inputs_size, outputs_size_bytes |-> m.outputs_size]

to_dict(w, heap) ==
    LET eff == get_parallel_efficiency(w, heap)
    IN  IF eff.err # "none" THEN [err |-> eff.err, ret |-> <<>>]
        ELSE [err |-> "none", ret |->
               [workflow_name |-> w.workflow_name,
                start_time |-> isoformat(w.start_time),
                end_time |-> IsoOrNull(w.end_time),
                total_duration_seconds |-> w.duration,
                agents |-> [i \in 1..Len(w.agents) |-> agent_to_dict(heap[w.agents[i]])],
                total_inputs_size_bytes |-> w.total_inputs_size,
                total_outputs_size_bytes |-> w.total_outputs_size,
                workflow_success |-> w.success,
                error_message |-> w.error_message,
                parallel_efficiency_percent |-> eff.ret]]

RECURSIVE CountAgents(_, _, _)
CountAgents(reg, bs, i) ==
    IF i > Len(reg) THEN 0 ELSE Len(bs[reg[i]].agents) + CountAgents(reg, bs, i + 1)

get_summary(reg, bs, heap) ==
    LET dicts == [i \in 1..Len(reg) |-> to_dict(bs[reg[i]], heap)]
        failed == {i \in 1..Len(reg) : dicts[i].err # "none"}
    IN  IF failed # {}
        THEN [err |-> dicts[CHOOSE i \in failed : \A j \in failed : i <= j].err,
              ret |-> <<>>]
        ELSE [err |-> "none", ret |->
               [total_workflows |-> Len(reg),
                total_agents_executed |-> CountAgents(reg, bs, 1),
                total_time |-> SumOf([i \in 1..Len(reg) |-> bs[reg[i]].duration], 1, FZero),
                workflows |-> [i \in 1..Len(reg) |-> dicts[i].ret]]]

---------------------------------------------------------------------------
(* The printed workflow summary.  A printed line is its label and the      *)
(* values formatted into it.                                               *)

RECURSIVE Pow10(_)
Pow10(k) == IF k = 0 THEN 1 ELSE 10 * Pow10(k - 1)

\* format(f, ".<places>f"): the decimal with that many places nearest to f,
\* ties to even, as its sign and its digits
Fixed(f, places) ==
    LET a == (IF f.n < 0 THEN -f.n ELSE f.n) * Pow10(places)
        q == a \div f.d
        rem == a % f.d
        up == 2 * rem > f.d \/ (2 * rem = f.d /\ q % 2 = 1)
    IN  [sign |-> IF f.n < 0 THEN "-" ELSE "", digits |-> IF up THEN q + 1 ELSE q]

Line(text, str, nums, name, kind) == [text |-> text, str |-> str, nums |-> nums, name |-> name, kind |-> kind]

RECURSIVE AgentLines(_, _, _)
AgentLines(w, heap, i) ==
    IF i > Len(w.agents) THEN <<>>
    ELSE LET agent == heap[w.agents[i]] IN
         <<Line("agent", IF agent.success THEN "ok" ELSE "failed", <<Fixed(agent.duration, 2).digits>>, <<agent.agent_name, Fixed(agent.duration, 2).sign>>, agent.agent_type)>>
         \o (IF agent.error_message # "" THEN <<Line("Error", agent.error_message, <<>>, <<>>, "")>> ELSE <<>>)
         \o AgentLines(w, heap, i + 1)

\* mutant: the efficiency line is printed for every batch
print_workflow_summary_always_efficiency(w, heap) ==
    LET head == <<Line("rule", "", <<>>, <<>>, ""),
                  Line("Workflow", w.workflow_name, <<>>, <<>>, ""),
                  Line("rule", "", <<>>, <<>>, ""),
                  Line("Status", IF w.success THEN "SUCCESS" ELSE "FAILED", <<>>, <<>>, ""),
                  Line("Duration", Fixed(w.duration, 2).sign, <<Fixed(w.duration, 2).digits>>, <<>>, ""),
                  Line("Agents Executed", "", <<Len(w.agents)>>, <<>>, ""),
                  Line("Data Size", "", <<w.total_inputs_size, w.total_outputs_size>>, <<>>, "")>>
        eff == get_parallel_efficiency(w, heap)
        tail == <<Line("Agent Breakdown", "", <<>>, <<>>, "")>> \o AgentLines(w, heap, 1) \o <<Line("rule", "", <<>>, <<>>, "")>>
    IN  IF TRUE
        THEN IF eff.err # "none" THEN [err |-> eff.err, ret |-> head]
             ELSE [err |-> "none", ret |-> head \o <<Line("Parallel Efficiency", Fixed(eff.ret, 1).sign, <<Fixed(eff.ret, 1).digits>>, <<>>, "")>> \o tail]
        ELSE [err |-> "none", ret |-> head \o tail]

print_workflow_summary(w, heap) ==
    LET head == <<Line("rule", "", <<>>, <<>>, ""),
                  Line("Workflow", w.workflow_name, <<>>, <<>>, ""),
                  Line("rule", "", <<>>, <<>>, ""),
                  Line("Status", IF w.success THEN "SUCCESS" ELSE "FAILED", <<>>, <<>>, ""),
                  Line("Duration", Fixed(w.duration, 2).sign, <<Fixed(w.duration, 2).digits>>, <<>>, ""),
                  Line("Agents Executed", "", <<Len(w.agents)>>, <<>>, ""),
                  Line("Data Size", "", <<w.total_inputs_size, w.total_outputs_size>>, <<>>, "")>>
        eff == get_parallel_efficiency(w, heap)
        tail == <<Line("Agent Breakdown", "", <<>>, <<>>, "")>> \o AgentLines(w, heap, 1) \o <<Line("rule", "", <<>>, <<>>, "")>>
    IN  IF \E i \in 1..Len(w.agents) : heap[w.agents[i]].agent_type = "parallel"
        THEN IF eff.err # "none" THEN [err |-> eff.err, ret |-> head]
             ELSE [err |-> "none", ret |-> head \o <<Line("Parallel Efficiency", Fixed(eff.ret, 1).sign, <<Fixed(eff.ret, 1).digits>>, <<>>, "")>> \o tail]
        ELSE [err |-> "none", ret |-> head \o tail]

---------------------------------------------------------------------------
(* The parallel phase of main.py: run_parallel_agents submits three        *)
(* decorated agent methods to a ThreadPoolExecutor of three workers.       *)

\* the submitted methods, in submission order
Units == <<"analyze_academic_strengths", "analyze_extracurriculars", "get_test_prep_strategy">>

UnitSet == {Units[i] : i \in 1..Len(Units)}

\* the name each method is decorated with
AgentName(u) ==
    CASE u = "analyze_academic_strengths" -> "Academic Profile Analyzer"
      [] u = "analyze_extracurriculars" -> "Extracurricular Advisor"
      [] u = "get_test_prep_strategy" -> "Test Prep Advisor"

\* the key of parallel_results the i-th result is stored under
ResultKey(i) ==
    CASE i = 1 -> "academic_analysis"
      [] i = 2 -> "extracurricular_analysis"
      [] i = 3 -> "test_prep_strategy"

\* what the method returns, and what it raises when the API call or
\* json.loads fails
ResultOf(u) == <<"result", u>>
ErrorOf(u) ==
    CASE u = "analyze_academic_strengths" -> "academic error"
      [] u = "analyze_extracurriculars" -> "extracurricular error"
      [] u = "get_test_prep_strategy" -> "test prep error"

Future(state, result, exception) == [state |-> state, result |-> result, exception |-> exception]

EmptyDict == [k \in {} |-> None]
DictSet(d, key, v) == [k \in DOMAIN d \cup {key} |-> IF k = key THEN v ELSE d[k]]

At(step, i) == [step |-> step, i |-> i]

LogRecord(level, msg, agent) == [level |-> level, msg |-> msg, agent |-> agent]

\* the state at the call of run_parallel_agents
ParEntry ==
    /\ pc = At("entry", 0)
    /\ futures = [u \in UnitSet |-> Future("unsubmitted", None, None)]
    /\ parallel_results = EmptyDict
    /\ exc = None
    /\ outcome = None
    /\ log = <<>>

---------------------------------------------------------------------------
(* main(): agent construction, the serial phase, the parallel phase, the   *)
(* report and the two output files.                                        *)

\* the agent run_serial_agents calls k-th: the school agent, then the
\* course agent once per target program
SerialUnit(k) == IF k = 0 THEN "get_school_recommendations" ELSE "get_course_recommendations"
SerialArg(programs, k) == IF k = 0 THEN None ELSE Some(programs[k])

SerialAgentName(k) ==
    IF k = 0 THEN "School Recommendation Agent" ELSE "Course Recommendation Agent"

SerialCall(event, k, programs) == [event |-> event, unit |-> SerialUnit(k), program |-> SerialArg(programs, k)]

SerialError(k) == IF k = 0 THEN "school error" ELSE "course error"
SerialResult(k, programs) == <<"result", SerialUnit(k), SerialArg(programs, k)>>

\* the state at the call of main() for a student with these target programs
MainEntry(programs) ==
    /\ mainpc = "init_agent"
    /\ spc = At("entry", 0)
    /\ target_programs = programs
    /\ serial_calls = <<>>
    /\ serial_results = EmptyDict
    /\ files = {}
    /\ raised = None

---------------------------------------------------------------------------
(* The calls a client can make, one action each.  Every action records the *)
(* call in `last`.                                                         *)

Call(op, arg, err, ret) == [op |-> op, arg |-> arg, err |-> err, ret |-> ret]

\* the calls made so far that built or changed an object
CallsMade ==
    now + Len(records) + Len(batches) + Len(workflows)
    + CountAgents([i \in 1..Len(batches) |-> i], batches, 1)

\* datetime.now() moves forward between calls
Tick ==
    /\ CallsMade < MaxCalls
    /\ now' = now + 1
    /\ last' = Call("clock", now + 1, "none", <<>>)
    /\ UNCHANGED <<records, batches, workflows>>
    /\ UNCHANGED parVars
    /\ UNCHANGED mainVars

\* ExecutionMetrics(...): constructor arguments as the integration test gives them
TestRecordArgs ==
    {[agent_name |-> <<"Agent", i>>, agent_type |-> "serial", start_time |-> now,
      end_time |-> None, duration |-> FZero, success |-> TRUE, error_message |-> "",
      inputs_size |-> 100 * (i + 1), outputs_size |-> 200 * (i + 1)] : i \in 0..2}

ExecutionMetricsCall(a) ==
    /\ records' = Append(records,
            ExecutionMetrics(a.agent_name, a.agent_type, a.start_time, a.end_time,
                             a.duration, a.success, a.error_message,
                             a.inputs_size, a.outputs_size))
    /\ last' = Call("ExecutionMetrics", a, "none", Len(records) + 1)
    /\ UNCHANGED <<now, batches, workflows>>
    /\ UNCHANGED parVars
    /\ UNCHANGED mainVars

NewRecord(a) == CallsMade < MaxCalls /\ ExecutionMetricsCall(a)

WorkflowNames == {"Test", "Integration Test"}

\* mutant: the new batch is registered at once
create_workflow_registers(workflow_name) ==
    /\ CallsMade < MaxCalls
    /\ batches' = Append(batches, WorkflowMetrics(workflow_name, now))
    /\ workflows' = Append(workflows, Len(batches) + 1)
    /\ last' = Call("create_workflow", workflow_name, "none", Len(batches) + 1)
    /\ UNCHANGED <<now, records>>
    /\ UNCHANGED parVars
    /\ UNCHANGED mainVars

create_workflow(workflow_name) ==
    /\ CallsMade < MaxCalls
    /\ batches' = Append(batches, WorkflowMetrics(workflow_name, now))
    /\ last' = Call("create_workflow", workflow_name, "none", Len(batches) + 1)
    /\ UNCHANGED <<now, records, workflows>>
    /\ UNCHANGED parVars
    /\ UNCHANGED mainVars

AddAgentMetricsCall(b, r) ==
    /\ batches' = [batches EXCEPT ![b] = add_agent_metrics(@, r, records[r])]
    /\ last' = Call("add_agent_metrics", <<b, r>>, "none", <<>>)
    /\ UNCHANGED <<now, records, workflows>>
    /\ UNCHANGED parVars
    /\ UNCHANGED mainVars

AddAgentMetrics(b, r) == CallsMade < MaxCalls /\ AddAgentMetricsCall(b, r)

Finalize(b) ==
    /\ batches' = [batches EXCEPT ![b] = finalize(@)]
    /\ last' = Call("finalize", b, "none", <<>>)
    /\ UNCHANGED <<now, records, workflows>>
    /\ UNCHANGED parVars
    /\ UNCHANGED mainVars

\* mutant: finalize() runs before end_time is stamped
finalize_workflow_early(b) ==
    /\ CallsMade < MaxCalls
    /\ batches' = [batches EXCEPT ![b] = [finalize(@) EXCEPT !.end_time = Some(now)]]
    /\ workflows' = Append(workflows, b)
    /\ last' = Call("finalize_workflow", b, "none", <<>>)
    /\ UNCHANGED <<now, records>>
    /\ UNCHANGED parVars
    /\ UNCHANGED mainVars

\* mutant: the batch is put at the head of the registry
finalize_workflow_front(b) ==
    /\ CallsMade < MaxCalls
    /\ batches' = [batches EXCEPT ![b] = finalize([@ EXCEPT !.end_time = Some(now)])]
    /\ workflows' = <<b>> \o workflows
    /\ last' = Call("finalize_workflow", b, "none", <<>>)
    /\ UNCHANGED <<now, records>>
    /\ UNCHANGED parVars
    /\ UNCHANGED mainVars

FinalizeWorkflowCall(b) ==
    /\ batches' = [batches EXCEPT ![b] = finalize([@ EXCEPT !.end_time = Some(now)])]
    /\ workflows' = Append(workflows, b)
    /\ last' = Call("finalize_workflow", b, "none", <<>>)
    /\ UNCHANGED <<now, records>>
    /\ UNCHANGED parVars
    /\ UNCHANGED mainVars

finalize_workflow(b) == CallsMade < MaxCalls /\ FinalizeWorkflowCall(b)

PrintWorkflowSummary(b) ==
    /\ LET res == print_workflow_summary(batches[b], records)
       IN  last' = Call("print_workflow_summary", b, res.err, res.ret)
    /\ UNCHANGED <<now, records, batches, workflows>>
    /\ UNCHANGED parVars
    /\ UNCHANGED mainVars

GetParallelEfficiency(b) ==
    /\ LET res == get_parallel_efficiency(batches[b], records)
       IN  last' = Call("get_parallel_efficiency", b, res.err, res.ret)
    /\ UNCHANGED <<now, records, batches, workflows>>
    /\ UNCHANGED parVars
    /\ UNCHANGED mainVars

\* mutant: reading the summary empties the registry
GetSummary_drains ==
    /\ LET res == get_summary(workflows, batches, records)
       IN  last' = Call("get_summary", <<>>, res.err, res.ret)
    /\ workflows' = <<>>
    /\ UNCHANGED <<now, records, batches>>
    /\ UNCHANGED parVars
    /\ UNCHANGED mainVars

GetSummary ==
    /\ LET res == get_summary(workflows, batches, records)
       IN  last' = Call("get_summary", <<>>, res.err, res.ret)
    /\ UNCHANGED <<now, records, batches, workflows>>
    /\ UNCHANGED parVars
    /\ UNCHANGED mainVars

\* open(filename, 'w') truncates the file before get_summary() is evaluated
save_metrics ==
    /\ LET res == get_summary(workflows, batches, records)
       IN  last' = Call("save_metrics", <<>>, res.err,
                        IF res.err = "none" THEN <<"json", res.ret>> ELSE <<"empty">>)
    /\ UNCHANGED <<now, records, batches, workflows>>
    /\ UNCHANGED parVars
    /\ UNCHANGED mainVars

Init ==
    /\ now = 0
    /\ records = <<>>
    /\ batches = <<>>
    /\ workflows = <<>>
    /\ last = Call("init", <<>>, "none", <<>>)
    /\ ParEntry
    /\ MainEntry(<<>>)

Next ==
    \/ Tick
    \/ \E a \in TestRecordArgs : NewRecord(a)
    \/ \E n \in WorkflowNames : create_workflow(n)
    \/ \E b \in 1..Len(batches), r \in 1..Len(records) : AddAgentMetrics(b, r)
    \/ \E b \in 1..Len(batches) : Finalize(b)
    \/ \E b \in 1..Len(batches) : finalize_workflow(b)
    \/ \E b \in 1..Len(batches) : GetParallelEfficiency(b)
    \/ GetSummary
    \/ save_metrics

Spec == Init /\ [][Next]_vars

---------------------------------------------------------------------------
(* One WorkflowMetrics built directly, as the unit tests' setUp does, and  *)
(* the record operations on it.                                            *)

InitBatch ==
    /\ now = 0
    /\ records = <<>>
    /\ batches = <<WorkflowMetrics("Test Workflow", 0)>>
    /\ workflows = <<>>
    /\ last = Call("init", <<>>, "none", <<>>)
    /\ ParEntry
    /\ MainEntry(<<>>)

BatchNewRecord(a) == Len(records) < MaxBatchRecords /\ ExecutionMetricsCall(a)

BatchAdd(r) == Len(batches[1].agents) < MaxBatchAdds /\ AddAgentMetricsCall(1, r)

NextBatch ==
    \/ \E a \in TestRecordArgs : BatchNewRecord(a)
    \/ \E r \in 1..Len(records) : BatchAdd(r)
    \/ Finalize(1)
    \/ GetParallelEfficiency(1)

SpecBatch == InitBatch /\ [][NextBatch]_vars

---------------------------------------------------------------------------
(* get_parallel_efficiency as a function of the record durations: a batch  *)
(* of completed records, each timed by calculate_duration from its start   *)
(* and end time; up to MaxMixedAgents records of any durations, or up to   *)
(* MaxEqualAgents records of one duration.                                 *)

EffDeltas == {-1, 0, 1, 3, 10, 20, 30}     \* end_time - start_time, in ticks

TimedRecord(i, delta) ==
    calculate_duration(
        ExecutionMetrics(<<"Parallel Agent", i>>, "parallel", 1, Some(1 + delta),
                         FZero, TRUE, "", 0, 0))

RECURSIVE AddAll(_, _, _)
AddAll(w, heap, i) ==
    IF i > Len(heap) THEN w ELSE AddAll(add_agent_metrics(w, i, heap[i]), heap, i + 1)

EffInputs ==
    UNION {[1..n -> EffDeltas] : n \in 0..MaxMixedAgents}
    \cup {[i \in 1..n |-> d] : n \in 1..MaxEqualAgents, d \in EffDeltas}

InitEff ==
    /\ now = 1
    /\ \E ds \in EffInputs :
          /\ records = [i \in 1..Len(ds) |-> TimedRecord(i, ds[i])]
          /\ batches = <<AddAll(WorkflowMetrics("Test Workflow", 1),
                                [i \in 1..Len(ds) |-> TimedRecord(i, ds[i])], 1)>>
    /\ workflows = <<>>
    /\ last = Call("init", <<>>, "none", <<>>)
    /\ ParEntry
    /\ MainEntry(<<>>)

NextEff == GetParallelEfficiency(1)

SpecEff == InitEff /\ [][NextEff]_vars

---------------------------------------------------------------------------
(* Records as a caller can construct them (any end_time, duration, outcome *)
(* and sizes), calculate_duration on them, and their addition to one       *)
(* WorkflowMetrics.                                                        *)

DefaultArgs ==
    [agent_name |-> "Test Agent", agent_type |-> "serial", start_time |-> 1,
     end_time |-> None, duration |-> FZero, success |-> TRUE, error_message |-> "",
     inputs_size |-> 0, outputs_size |-> 0]

\* end_time unset, before, at and after start_time; duration 0.0 or 2.0 as given
TimingArgs ==
    {[DefaultArgs EXCEPT !.agent_type = "parallel", !.end_time = e, !.duration = d] :
        e \in {None, Some(0), Some(1), Some(1 + 2 * TicksPerSecond)},
        d \in {FZero, FromInt(2)}}

OutcomeArgs ==
    {[DefaultArgs EXCEPT !.success = ok, !.error_message = msg] :
        ok \in BOOLEAN, msg \in {"", "API error"}}

SizeArgs ==
    {[DefaultArgs EXCEPT !.inputs_size = sz[1], !.outputs_size = sz[2]] :
        sz \in {<<100, 200>>, <<-1, 0>>, <<0, -5>>}}

RecArgs == TimingArgs \cup OutcomeArgs \cup SizeArgs

InitRec ==
    /\ now = 1
    /\ records = <<>>
    /\ batches = <<WorkflowMetrics("Test Workflow", 1)>>
    /\ workflows = <<>>
    /\ last = Call("init", <<>>, "none", <<>>)
    /\ ParEntry
    /\ MainEntry(<<>>)

RecNewRecord(a) == Len(records) < MaxRecRecords /\ ExecutionMetricsCall(a)

CalculateDuration(r) ==
    /\ records' = [records EXCEPT ![r] = calculate_duration(@)]
    /\ last' = Call("calculate_duration", r, "none", calculate_duration(records[r]).duration)
    /\ UNCHANGED <<now, batches, workflows>>
    /\ UNCHANGED parVars
    /\ UNCHANGED mainVars

RecAdd(r) == Len(batches[1].agents) < MaxRecAdds /\ AddAgentMetricsCall(1, r)

NextRec ==
    \/ \E a \in RecArgs : RecNewRecord(a)
    \/ \E r \in 1..Len(records) : CalculateDuration(r)
    \/ \E r \in 1..Len(records) : RecAdd(r)

SpecRec == InitRec /\ [][NextRec]_vars

---------------------------------------------------------------------------
(* The collector's lifecycle with records of either outcome.               *)

NextOutcome ==
    \/ \E a \in OutcomeArgs : NewRecord(a)
    \/ \E n \in WorkflowNames : create_workflow(n)
    \/ \E b \in 1..Len(batches), r \in 1..Len(records) : AddAgentMetrics(b, r)
    \/ \E b \in 1..Len(batches) : finalize_workflow(b)
    \/ GetSummary

SpecOutcome == Init /\ [][NextOutcome]_vars

---------------------------------------------------------------------------
(* The registry and its summary: a batch of timed records and an empty     *)
(* batch, registered in either order at any time, and summarised.          *)

SumDeltas == {-1, 0, 10}     \* end_time - start_time, in ticks

SumInputs == UNION {[1..n -> SumDeltas] : n \in 0..2}

InitSum ==
    /\ now = 1
    /\ \E ds \in SumInputs :
          /\ records = [i \in 1..Len(ds) |-> TimedRecord(i, ds[i])]
          /\ batches = <<AddAll(WorkflowMetrics("Test", 1),
                                [i \in 1..Len(ds) |-> TimedRecord(i, ds[i])], 1),
                         WorkflowMetrics("Integration Test", 1)>>
    /\ workflows = <<>>
    /\ last = Call("init", <<>>, "none", <<>>)
    /\ ParEntry
    /\ MainEntry(<<>>)

SumTick ==
    /\ now < MaxSumTime
    /\ now' = now + 1
    /\ last' = Call("clock", <<>>, "none", <<>>)
    /\ UNCHANGED <<records, batches, workflows>>
    /\ UNCHANGED parVars
    /\ UNCHANGED mainVars

SumFinalizeWorkflow(b) == Len(workflows) < MaxSumRegistered /\ FinalizeWorkflowCall(b)

NextSum ==
    \/ SumTick
    \/ \E b \in 1..Len(batches) : SumFinalizeWorkflow(b)
    \/ GetSummary
    \/ save_metrics

SpecSum == InitSum /\ [][NextSum]_vars

---------------------------------------------------------------------------
(* Two batches of the same records that differ in the records' kinds only. *)

KindRecord(i, delta, kind) ==
    calculate_duration(
        ExecutionMetrics(<<"Agent", i>>, kind, 1, Some(1 + delta), FZero, TRUE, "", 100 * i, 200 * i))

KindInputs ==
    UNION {[ds : [1..n -> SumDeltas], kinds1 : [1..n -> AgentType], kinds2 : [1..n -> AgentType]] : n \in 0..MaxKindAgents}

InitKind ==
    /\ now = 1
    /\ \E inp \in KindInputs :
          LET n == Len(inp.ds)
              first == [i \in 1..n |-> KindRecord(i, inp.ds[i], inp.kinds1[i])]
              second == [i \in 1..n |-> KindRecord(i, inp.ds[i], inp.kinds2[i])]
          IN  /\ records = first \o second
              /\ batches = <<AddAll(WorkflowMetrics("Test", 1), first, 1),
                             AddAll(WorkflowMetrics("Test", 1), first \o second, n + 1)>>
    /\ workflows = <<>>
    /\ last = Call("init", <<>>, "none", <<>>)
    /\ ParEntry
    /\ MainEntry(<<>>)

NextKind ==
    \/ \E b \in 1..Len(batches) : PrintWorkflowSummary(b)
    \/ \E b \in 1..Len(batches) : GetParallelEfficiency(b)

SpecKind == InitKind /\ [][NextKind]_vars

---------------------------------------------------------------------------
(* run_parallel_agents, one action per step of the main thread and of the  *)
(* worker threads.  The workers run the observe_agent wrapper.             *)

RunParallelEnter ==
    /\ pc = At("entry", 0)
    /\ log' = Append(log, LogRecord("INFO", "Starting parallel agent execution", ""))
    /\ parallel_results' = EmptyDict
    /\ pc' = At("submit", 1)
    /\ UNCHANGED <<futures, exc, outcome>>
    /\ UNCHANGED obsVars
    /\ UNCHANGED mainVars

\* mutant: the task is not handed to the executor
Submit_lost(i) ==
    /\ pc = At("submit", i)
    /\ pc' = IF i < Len(Units) THEN At("submit", i + 1) ELSE At("waiting", 0)
    /\ UNCHANGED <<futures, parallel_results, exc, outcome, log>>
    /\ UNCHANGED obsVars
    /\ UNCHANGED mainVars

Submit(i) ==
    /\ pc = At("submit", i)
    /\ futures' = [futures EXCEPT ![Units[i]] = Future("pending", None, None)]
    /\ pc' = IF i < Len(Units) THEN At("submit", i + 1) ELSE At("waiting", 0)
    /\ UNCHANGED <<parallel_results, exc, outcome, log>>
    /\ UNCHANGED obsVars
    /\ UNCHANGED mainVars

LogWaiting ==
    /\ pc = At("waiting", 0)
    /\ log' = Append(log, LogRecord("INFO", "Waiting for parallel agents to complete", ""))
    /\ pc' = At("result", 1)
    /\ UNCHANGED <<futures, parallel_results, exc, outcome>>
    /\ UNCHANGED obsVars
    /\ UNCHANGED mainVars

\* mutant: result() does not block until the future is finished
FutureResult_no_wait(i) ==
    /\ pc = At("result", i)
    /\ IF Truthy(futures[Units[i]].exception)
       THEN /\ exc' = futures[Units[i]].exception
            /\ pc' = At("shutdown", 0)
            /\ UNCHANGED parallel_results
       ELSE /\ parallel_results' = DictSet(parallel_results, ResultKey(i), IF Truthy(futures[Units[i]].result) THEN futures[Units[i]].result[1] ELSE None)
            /\ pc' = IF i < Len(Units) THEN At("result", i + 1) ELSE At("completed", 0)
            /\ UNCHANGED exc
    /\ UNCHANGED <<futures, outcome, log>>
    /\ UNCHANGED obsVars
    /\ UNCHANGED mainVars

\* future.result(): blocks until the task is finished, then returns its
\* result or raises its exception, which leaves the with block
FutureResult(i) ==
    /\ pc = At("result", i)
    /\ futures[Units[i]].state = "finished"
    /\ IF Truthy(futures[Units[i]].exception)
       THEN /\ exc' = futures[Units[i]].exception
            /\ pc' = At("shutdown", 0)
            /\ UNCHANGED parallel_results
       ELSE /\ parallel_results' = DictSet(parallel_results, ResultKey(i), futures[Units[i]].result[1])
            /\ pc' = IF i < Len(Units) THEN At("result", i + 1) ELSE At("completed", 0)
            /\ UNCHANGED exc
    /\ UNCHANGED <<futures, outcome, log>>
    /\ UNCHANGED obsVars
    /\ UNCHANGED mainVars

LogCompleted ==
    /\ pc = At("completed", 0)
    /\ log' = Append(log, LogRecord("INFO", "All parallel agents completed successfully", ""))
    /\ pc' = At("shutdown", 0)
    /\ UNCHANGED <<futures, parallel_results, exc, outcome>>
    /\ UNCHANGED obsVars
    /\ UNCHANGED mainVars

\* mutant: the executor is shut down without waiting for the workers
ExecutorExit_no_wait ==
    /\ pc = At("shutdown", 0)
    /\ outcome' = IF Truthy(exc) THEN Some([err |-> exc[1], ret |-> <<>>])
                  ELSE Some([err |-> "none", ret |-> parallel_results])
    /\ pc' = At("done", 0)
    /\ UNCHANGED <<futures, parallel_results, exc, log>>
    /\ UNCHANGED obsVars
    /\ UNCHANGED mainVars

\* ThreadPoolExecutor.__exit__ is shutdown(wait=True): it joins the workers,
\* then the function returns parallel_results or the exception goes on
ExecutorExit ==
    /\ pc = At("shutdown", 0)
    /\ \A u \in UnitSet : futures[u].state \in {"unsubmitted", "finished"}
    /\ outcome' = IF Truthy(exc) THEN Some([err |-> exc[1], ret |-> <<>>])
                  ELSE Some([err |-> "none", ret |-> parallel_results])
    /\ pc' = At("done", 0)
    /\ UNCHANGED <<futures, parallel_results, exc, log>>
    /\ UNCHANGED obsVars
    /\ UNCHANGED mainVars

\* a worker thread takes the task and enters the wrapper
WorkerStart(u) ==
    /\ futures[u].state = "pending"
    /\ futures' = [futures EXCEPT ![u].state = "running"]
    /\ log' = Append(log, LogRecord("INFO", "Starting agent", AgentName(u)))
    /\ UNCHANGED <<pc, parallel_results, exc, outcome>>
    /\ UNCHANGED obsVars
    /\ UNCHANGED mainVars

\* mutant: the worker stores its result in parallel_results itself
WorkerFinish_writes_dict(u, ok) ==
    /\ futures[u].state = "running"
    /\ IF ok
       THEN /\ log' = Append(log, LogRecord("INFO", "completed successfully", AgentName(u)))
            /\ futures' = [futures EXCEPT ![u] = Future("finished", Some(ResultOf(u)), None)]
            /\ parallel_results' = DictSet(parallel_results, u, ResultOf(u))
       ELSE /\ log' = Append(log, LogRecord("ERROR", "failed with error", AgentName(u)))
            /\ futures' = [futures EXCEPT ![u] = Future("finished", None, Some(ErrorOf(u)))]
            /\ UNCHANGED parallel_results
    /\ UNCHANGED <<pc, exc, outcome>>
    /\ UNCHANGED obsVars
    /\ UNCHANGED mainVars

\* the wrapped method returns or raises; the wrapper logs and passes it on
WorkerFinish(u, ok) ==
    /\ futures[u].state = "running"
    /\ IF ok
       THEN /\ log' = Append(log, LogRecord("INFO", "completed successfully", AgentName(u)))
            /\ futures' = [futures EXCEPT ![u] = Future("finished", Some(ResultOf(u)), None)]
       ELSE /\ log' = Append(log, LogRecord("ERROR", "failed with error", AgentName(u)))
            /\ futures' = [futures EXCEPT ![u] = Future("finished", None, Some(ErrorOf(u)))]
    /\ UNCHANGED <<pc, parallel_results, exc, outcome>>
    /\ UNCHANGED obsVars
    /\ UNCHANGED mainVars

InitPar ==
    /\ now = 0
    /\ records = <<>>
    /\ batches = <<>>
    /\ workflows = <<>>
    /\ last = Call("init", <<>>, "none", <<>>)
    /\ ParEntry
    /\ MainEntry(<<>>)

NextPar ==
    \/ RunParallelEnter
    \/ \E i \in 1..Len(Units) : Submit(i)
    \/ LogWaiting
    \/ \E i \in 1..Len(Units) : FutureResult(i)
    \/ LogCompleted
    \/ ExecutorExit
    \/ \E u \in UnitSet : WorkerStart(u)
    \/ \E u \in UnitSet, ok \in BOOLEAN : WorkerFinish(u, ok)

SpecPar == InitPar /\ [][NextPar]_vars

\* the steps of the calling thread, and those of the worker running a task
JoiningThread ==
    \/ RunParallelEnter
    \/ \E i \in 1..Len(Units) : Submit(i)
    \/ LogWaiting
    \/ \E i \in 1..Len(Units) : FutureResult(i)
    \/ LogCompleted
    \/ ExecutorExit

Worker(u) == WorkerStart(u) \/ \E ok \in BOOLEAN : WorkerFinish(u, ok)

\* every thread that can run is eventually run, and every unit terminates
SpecParFair ==
    /\ SpecPar
    /\ WF_vars(JoiningThread)
    /\ \A u \in UnitSet : WF_vars(Worker(u))

---------------------------------------------------------------------------
(* run_serial_agents: the school agent, then the course agent for each     *)
(* target program, all in the calling thread.  Call k = 0 is the school    *)
(* agent, call k >= 1 the course agent for target_programs[k].             *)

Programs == {"Computer Science", "Engineering"}

ProgramLists == UNION {[1..n -> Programs] : n \in 0..MaxPrograms}

RunSerialEnter ==
    /\ spc = At("entry", 0)
    /\ log' = Append(log, LogRecord("INFO", "Starting serial agent execution", ""))
    /\ serial_results' = EmptyDict
    /\ spc' = At("call", 0)
    /\ UNCHANGED <<mainpc, target_programs, serial_calls, files, raised>>
    /\ UNCHANGED <<pc, futures, parallel_results, exc, outcome>>
    /\ UNCHANGED obsVars

\* the call is announced and the wrapper is entered
SerialCallStart(k) ==
    /\ spc = At("call", k)
    /\ log' = log \o <<LogRecord("INFO", "Executing agent (serial)", SerialArg(target_programs, k)),
                       LogRecord("INFO", "Starting agent", SerialAgentName(k))>>
    /\ serial_calls' = Append(serial_calls, SerialCall("start", k, target_programs))
    /\ spc' = At("running", k)
    /\ UNCHANGED <<mainpc, target_programs, serial_results, files, raised>>
    /\ UNCHANGED <<pc, futures, parallel_results, exc, outcome>>
    /\ UNCHANGED obsVars

\* mutant: a failed call is made again
SerialCallFinish_retries(k, ok) ==
    /\ spc = At("running", k)
    /\ IF ok
       THEN /\ log' = Append(log, LogRecord("INFO", "completed successfully", SerialAgentName(k)))
            /\ serial_calls' = Append(serial_calls, SerialCall("return", k, target_programs))
            /\ serial_results' =
                  IF k = 0
                  THEN DictSet(DictSet(serial_results, "school_recommendations", SerialResult(0, target_programs)), "course_recommendations", EmptyDict)
                  ELSE DictSet(serial_results, "course_recommendations", DictSet(serial_results["course_recommendations"], target_programs[k], SerialResult(k, target_programs)))
            /\ spc' = IF k < Len(target_programs) THEN At("call", k + 1) ELSE At("return", 0)
       ELSE /\ log' = Append(log, LogRecord("ERROR", "failed with error", SerialAgentName(k)))
            /\ serial_calls' = Append(serial_calls, SerialCall("raise", k, target_programs))
            /\ spc' = IF Len(serial_calls) < 2 * (Len(target_programs) + 1) THEN At("call", k) ELSE At("raised", k)
            /\ UNCHANGED serial_results
    /\ UNCHANGED <<mainpc, target_programs, files, raised>>
    /\ UNCHANGED <<pc, futures, parallel_results, exc, outcome>>
    /\ UNCHANGED obsVars

\* the wrapped method returns, and its result is stored, or it raises, and
\* the exception leaves run_serial_agents
SerialCallFinish(k, ok) ==
    /\ spc = At("running", k)
    /\ IF ok
       THEN /\ log' = Append(log, LogRecord("INFO", "completed successfully", SerialAgentName(k)))
            /\ serial_calls' = Append(serial_calls, SerialCall("return", k, target_programs))
            /\ serial_results' =
                  IF k = 0
                  THEN DictSet(DictSet(serial_results, "school_recommendations", SerialResult(0, target_programs)), "course_recommendations", EmptyDict)
                  ELSE DictSet(serial_results, "course_recommendations", DictSet(serial_results["course_recommendations"], target_programs[k], SerialResult(k, target_programs)))
            /\ spc' = IF k < Len(target_programs) THEN At("call", k + 1) ELSE At("return", 0)
       ELSE /\ log' = Append(log, LogRecord("ERROR", "failed with error", SerialAgentName(k)))
            /\ serial_calls' = Append(serial_calls, SerialCall("raise", k, target_programs))
            /\ spc' = At("raised", k)
            /\ UNCHANGED serial_results
    /\ UNCHANGED <<mainpc, target_programs, files, raised>>
    /\ UNCHANGED <<pc, futures, parallel_results, exc, outcome>>
    /\ UNCHANGED obsVars

InitSer ==
    /\ now = 0
    /\ records = <<>>
    /\ batches = <<>>
    /\ workflows = <<>>
    /\ last = Call("init", <<>>, "none", <<>>)
    /\ ParEntry
    /\ \E programs \in ProgramLists : MainEntry(programs)

NextSer ==
    \/ RunSerialEnter
    \/ \E k \in 0..Len(target_programs) : SerialCallStart(k)
    \/ \E k \in 0..Len(target_programs), ok \in BOOLEAN : SerialCallFinish(k, ok)

SpecSer == InitSer /\ [][NextSer]_vars

---------------------------------------------------------------------------
(* main(): one action per statement of its try block, with the steps of    *)
(* run_serial_agents and run_parallel_agents running inside their phase.   *)

\* student.target_programs as main() sets it
MainPrograms == <<"Computer Science", "Engineering", "Data Science">>

ReportFile == "career_plan.txt"
JsonFile == "career_plan.json"

File(name, complete) == [name |-> name, complete |-> complete]

\* CareerPlanningAgent(): raises ValueError when GEMINI_API_KEY is not set
MainInitAgent(key_set) ==
    /\ mainpc = "init_agent"
    /\ IF key_set
       THEN /\ log' = log \o <<LogRecord("INFO", "CareerPlanningAgent initialized with Gemini API", ""),
                               LogRecord("INFO", "Executing serial agents", "")>>
            /\ mainpc' = "serial"
            /\ UNCHANGED raised
       ELSE /\ raised' = Some("ValueError")
            /\ mainpc' = "except"
            /\ UNCHANGED log
    /\ UNCHANGED <<spc, target_programs, serial_calls, serial_results, files>>
    /\ UNCHANGED <<pc, futures, parallel_results, exc, outcome>>
    /\ UNCHANGED obsVars

MainSerialStep == mainpc = "serial" /\ NextSer

\* mutant: a failure of the serial phase is swallowed and main() goes on
MainSerialDone_goes_on ==
    /\ mainpc = "serial"
    /\ spc.step \in {"return", "raised"}
    /\ log' = Append(log, LogRecord("INFO", "Executing parallel agents", ""))
    /\ mainpc' = "parallel"
    /\ UNCHANGED <<raised, spc, target_programs, serial_calls, serial_results, files>>
    /\ UNCHANGED <<pc, futures, parallel_results, exc, outcome>>
    /\ UNCHANGED obsVars

\* run_serial_agents hands its result or its exception to main()
MainSerialDone ==
    /\ mainpc = "serial"
    /\ spc.step \in {"return", "raised"}
    /\ IF spc.step = "return"
       THEN /\ log' = Append(log, LogRecord("INFO", "Executing parallel agents", ""))
            /\ mainpc' = "parallel"
            /\ UNCHANGED raised
       ELSE /\ raised' = Some(SerialError(spc.i))
            /\ mainpc' = "except"
            /\ UNCHANGED log
    /\ UNCHANGED <<spc, target_programs, serial_calls, serial_results, files>>
    /\ UNCHANGED <<pc, futures, parallel_results, exc, outcome>>
    /\ UNCHANGED obsVars

MainParallelStep == mainpc = "parallel" /\ NextPar

\* mutant: a failure of the parallel phase is swallowed and main() goes on
MainParallelDone_goes_on ==
    /\ mainpc = "parallel"
    /\ Truthy(outcome)
    /\ log' = Append(log, LogRecord("INFO", "Generating comprehensive report", ""))
    /\ mainpc' = "report"
    /\ UNCHANGED <<raised, spc, target_programs, serial_calls, serial_results, files>>
    /\ UNCHANGED <<pc, futures, parallel_results, exc, outcome>>
    /\ UNCHANGED obsVars

\* run_parallel_agents hands its result or its exception to main()
MainParallelDone ==
    /\ mainpc = "parallel"
    /\ Truthy(outcome)
    /\ IF outcome[1].err = "none"
       THEN /\ log' = Append(log, LogRecord("INFO", "Generating comprehensive report", ""))
            /\ mainpc' = "report"
            /\ UNCHANGED raised
       ELSE /\ raised' = Some(outcome[1].err)
            /\ mainpc' = "except"
            /\ UNCHANGED log
    /\ UNCHANGED <<spc, target_programs, serial_calls, serial_results, files>>
    /\ UNCHANGED <<pc, futures, parallel_results, exc, outcome>>
    /\ UNCHANGED obsVars

\* generate_comprehensive_report and print(report)
MainGenerateReport(ok) ==
    /\ mainpc = "report"
    /\ IF ok
       THEN mainpc' = "write_report" /\ UNCHANGED raised
       ELSE mainpc' = "except" /\ raised' = Some("report error")
    /\ UNCHANGED <<spc, target_programs, serial_calls, serial_results, files>>
    /\ UNCHANGED parVars
    /\ UNCHANGED obsVars

\* how writing a file ends: written, open() raised, or the write raised
\* after open() had created the file
WriteOutcomes == {"ok", "open fails", "write fails"}

MainWriteReport(how) ==
    /\ mainpc = "write_report"
    /\ files' = IF how = "open fails" THEN files ELSE files \cup {File(ReportFile, how = "ok")}
    /\ IF how = "ok"
       THEN /\ log' = Append(log, LogRecord("INFO", "Report saved", ""))
            /\ mainpc' = "write_json"
            /\ UNCHANGED raised
       ELSE /\ raised' = Some("OSError")
            /\ mainpc' = "except"
            /\ UNCHANGED log
    /\ UNCHANGED <<spc, target_programs, serial_calls, serial_results>>
    /\ UNCHANGED <<pc, futures, parallel_results, exc, outcome>>
    /\ UNCHANGED obsVars

\* json_data is built, then the file is opened and json.dump writes it
MainWriteJson(how) ==
    /\ mainpc = "write_json"
    /\ files' = IF how = "open fails" THEN files ELSE files \cup {File(JsonFile, how = "ok")}
    /\ IF how = "ok"
       THEN /\ log' = Append(log, LogRecord("INFO", "Structured data saved", ""))
            /\ mainpc' = "done"
            /\ UNCHANGED raised
       ELSE /\ raised' = Some(IF how = "open fails" THEN "OSError" ELSE "TypeError")
            /\ mainpc' = "except"
            /\ UNCHANGED log
    /\ UNCHANGED <<spc, target_programs, serial_calls, serial_results>>
    /\ UNCHANGED <<pc, futures, parallel_results, exc, outcome>>
    /\ UNCHANGED obsVars

\* except Exception: the error is logged and raised again
MainExcept ==
    /\ mainpc = "except"
    /\ log' = Append(log, LogRecord("ERROR", "Application error", ""))
    /\ mainpc' = "done"
    /\ UNCHANGED <<raised, spc, target_programs, serial_calls, serial_results, files>>
    /\ UNCHANGED <<pc, futures, parallel_results, exc, outcome>>
    /\ UNCHANGED obsVars

InitMain ==
    /\ now = 0
    /\ records = <<>>
    /\ batches = <<>>
    /\ workflows = <<>>
    /\ last = Call("init", <<>>, "none", <<>>)
    /\ ParEntry
    /\ MainEntry(MainPrograms)

NextMain ==
    \/ \E key_set \in BOOLEAN : MainInitAgent(key_set)
    \/ MainSerialStep
    \/ MainSerialDone
    \/ MainParallelStep
    \/ MainParallelDone
    \/ \E ok \in BOOLEAN : MainGenerateReport(ok)
    \/ \E how \in WriteOutcomes : MainWriteReport(how)
    \/ \E how \in WriteOutcomes : MainWriteJson(how)
    \/ MainExcept

SpecMain == InitMain /\ [][NextMain]_vars

---------------------------------------------------------------------------
(* Properties.                                                             *)

Positive(f) == f.n > 0

RECURSIVE SumSeq(_)
SumSeq(ints) == IF ints = <<>> THEN 0 ELSE Head(ints) + SumSeq(Tail(ints))

InputsSizes(w) == [i \in 1..Len(w.agents) |-> records[w.agents[i]].inputs_size]
OutputsSizes(w) == [i \in 1..Len(w.agents) |-> records[w.agents[i]].outputs_size]

\* C1: after any number of add_agent_metrics calls, a batch's
\* total_inputs_size is the sum of inputs_size over its records and its
\* total_outputs_size is the sum of outputs_size over them.
C1_TotalsAreSums ==
    \A b \in 1..Len(batches) :
        /\ batches[b].total_inputs_size = SumSeq(InputsSizes(batches[b]))
        /\ batches[b].total_outputs_size = SumSeq(OutputsSizes(batches[b]))

\* three records of sizes in=100,200,300 and out=200,400,600 were added
C1_Witness ==
    /\ last.op = "add_agent_metrics"
    /\ Len(batches[1].agents) = 3
    /\ InputsSizes(batches[1]) = <<100, 200, 300>>
    /\ OutputsSizes(batches[1]) = <<200, 400, 600>>
    /\ batches[1].total_inputs_size = 600
    /\ batches[1].total_outputs_size = 1200

\* C2: add_agent_metrics on a batch that is already finalized fails with an
\* invalid-state error and leaves the batch's records and size totals as
\* they were.
C2_AddAfterFinalizeRejected ==
    [][\A b \in 1..Len(batches) :
          (/\ last'.op = "add_agent_metrics"
           /\ last'.arg[1] = b
           /\ Truthy(batches[b].end_time))
          => (/\ last'.err # "none"
              /\ batches'[b].agents = batches[b].agents
              /\ batches'[b].total_inputs_size = batches[b].total_inputs_size
              /\ batches'[b].total_outputs_size = batches[b].total_outputs_size)]_vars

\* C3, as claimed: whenever WorkflowMetrics.finalize returns, the batch's
\* end_time is the current time and its duration is end_time - start_time.
C3_FinalizeStampsEndTime ==
    last.op = "finalize" =>
        /\ batches[last.arg].end_time = Some(now)
        /\ batches[last.arg].duration = TotalSeconds(now - batches[last.arg].start_time)

\* C3, amended: WorkflowMetrics.finalize never changes end_time; on a batch
\* whose end_time is set it leaves duration = end_time - start_time in seconds
\* and on a batch whose end_time is unset it changes nothing.
C3_FinalizeComputesDuration ==
    [][last'.op = "finalize" =>
          LET w == batches[last'.arg]
              w2 == batches'[last'.arg]
          IN  /\ w2.end_time = w.end_time
              /\ Truthy(w.end_time) =>
                    w2 = [w EXCEPT !.duration =
                             Round(w.end_time[1] - w.start_time, TicksPerSecond)]
              /\ ~Truthy(w.end_time) => w2 = w
              /\ \A o \in 1..Len(batches) : o # last'.arg => batches'[o] = batches[o]
              /\ workflows' = workflows]_vars

\* finalize() was called on a batch whose end_time was set a tick after its start
C3_Witness ==
    /\ last.op = "finalize"
    /\ Truthy(batches[last.arg].end_time)
    /\ Positive(batches[last.arg].duration)

\* C4: a batch is never in the registry twice (a repeated finalize_workflow
\* is rejected or changes nothing).
C4_NoBatchRegisteredTwice ==
    \A i, j \in 1..Len(workflows) : i # j => workflows[i] # workflows[j]

\* C5: finalize_workflow on a batch not yet finalized sets its end_time to the
\* current time and its duration to end_time - start_time, appends the batch
\* to the registry as its last element, and leaves the batch's records and
\* size totals alone.
C5_FinalizeWorkflowEffect ==
    [][(last'.op = "finalize_workflow" /\ ~Truthy(batches[last'.arg].end_time)) =>
          LET w == batches[last'.arg]
              w2 == batches'[last'.arg]
          IN  /\ w2.end_time = Some(now)
              /\ w2.duration = Round(now - w.start_time, TicksPerSecond)
              /\ Len(workflows') = Len(workflows) + 1
              /\ workflows'[Len(workflows')] = last'.arg
              /\ SubSeq(workflows', 1, Len(workflows)) = workflows
              /\ w2.agents = w.agents
              /\ w2.total_inputs_size = w.total_inputs_size
              /\ w2.total_outputs_size = w.total_outputs_size
              /\ records' = records]_vars

\* a batch holding a record was finalized for the first time, a tick after its start
C5_Witness ==
    /\ last.op = "finalize_workflow"
    /\ Cardinality({i \in 1..Len(workflows) : workflows[i] = last.arg}) = 1
    /\ batches[last.arg].agents # <<>>
    /\ Positive(batches[last.arg].duration)

\* C6: every batch in the registry has its end_time set, and the registry
\* only ever grows at its end, by the batch a finalize_workflow call was
\* given: no element is removed or moved by any call.
C6_RegistryAppendOnly ==
    /\ [](\A i \in 1..Len(workflows) : Truthy(batches[workflows[i]].end_time))
    /\ [][\/ workflows' = workflows
          \/ /\ last'.op = "finalize_workflow"
             /\ workflows' = Append(workflows, last'.arg)]_vars

\* two batches were registered in the order of their finalize_workflow
\* calls, the reverse of their creation, and a summary was taken
C6_Witness ==
    /\ workflows = <<2, 1>>
    /\ last.op = "get_summary"

\* C7: create_workflow(name) returns a new batch of that name with
\* start_time set to the current time, end_time unset, no records and zero
\* size totals, and leaves the registry as it was.
C7_CreateWorkflowEffect ==
    [][last'.op = "create_workflow" =>
          /\ last'.ret = Len(batches) + 1
          /\ Len(batches') = Len(batches) + 1
          /\ SubSeq(batches', 1, Len(batches)) = batches
          /\ batches'[last'.ret].workflow_name = last'.arg
          /\ batches'[last'.ret].start_time = now
          /\ batches'[last'.ret].end_time = None
          /\ batches'[last'.ret].agents = <<>>
          /\ batches'[last'.ret].total_inputs_size = 0
          /\ batches'[last'.ret].total_outputs_size = 0
          /\ workflows' = workflows]_vars

\* a second batch was created while the registry already held the first
C7_Witness ==
    /\ last.op = "create_workflow"
    /\ last.ret = 2
    /\ workflows = <<1>>
    /\ batches[2].workflow_name = last.arg
    /\ batches[2].end_time = None

---------------------------------------------------------------------------
(* Properties of get_parallel_efficiency.  The quantities the claims speak *)
(* of are defined here from the record durations, apart from the code.     *)

DurationsOf(b) == [i \in 1..Len(batches[b].agents) |-> records[batches[b].agents[i]].duration]

Hundred == FromInt(100)

\* the largest duration of a non-empty batch is 0
MaxDurationIsZero(ds) ==
    /\ \E i \in 1..Len(ds) : ds[i].n = 0
    /\ \A i \in 1..Len(ds) : ds[i].n <= 0

\* the largest of the durations
LargestOf(ds) ==
    ds[CHOOSE i \in 1..Len(ds) : \A j \in 1..Len(ds) : ds[j].n * ds[i].d <= ds[i].n * ds[j].d]

\* sum(durations): the float sum of the first k durations, taken in order
RECURSIVE PrefixSum(_, _)
PrefixSum(ds, k) ==
    IF k = 0 THEN FZero ELSE FAdd(PrefixSum(ds, k - 1), ds[k])

\* C8: get_parallel_efficiency never divides by zero: it returns a value for
\* every batch, and returns 0 whenever the largest record duration is 0.
C8_NoDivisionByZero ==
    last.op = "get_parallel_efficiency" =>
        /\ last.err = "none"
        /\ (batches[last.arg].agents # <<>> /\ MaxDurationIsZero(DurationsOf(last.arg)))
              => last.ret = FZero

\* C9: for a non-empty batch whose records all have the same positive
\* duration, get_parallel_efficiency returns exactly 100.
C9_EqualDurationsGive100 ==
    (/\ last.op = "get_parallel_efficiency"
     /\ batches[last.arg].agents # <<>>
     /\ \A i \in 1..Len(DurationsOf(last.arg)) :
           /\ Positive(DurationsOf(last.arg)[i])
           /\ DurationsOf(last.arg)[i] = DurationsOf(last.arg)[1])
    => (last.err = "none" /\ last.ret = Hundred)

\* C10: for a non-empty batch of non-negative durations, at least one of
\* them positive, get_parallel_efficiency returns
\* sum(durations) / (max(durations) * count) * 100.
C10_EfficiencyFormula ==
    LET ds == DurationsOf(last.arg) IN
    (/\ last.op = "get_parallel_efficiency"
     /\ ds # <<>>
     /\ \A i \in 1..Len(ds) : ds[i].n >= 0
     /\ \E i \in 1..Len(ds) : Positive(ds[i]))
    => /\ last.err = "none"
       /\ last.ret = FMul(FDiv(PrefixSum(ds, Len(ds)),
                               FMul(LargestOf(ds), FromInt(Len(ds)))),
                          Hundred)

\* the efficiency of durations 1, 2, 3 seconds was taken: 6/9*100
C10_Witness ==
    /\ last.op = "get_parallel_efficiency"
    /\ DurationsOf(last.arg) = <<FromInt(1), FromInt(2), FromInt(3)>>
    /\ last.err = "none"
    /\ last.ret = FMul(FDiv(FromInt(6), FromInt(9)), Hundred)

\* C11: a batch with no records has efficiency 0, before and after it is
\* finalized; finalize_workflow on a batch with no records registers it with
\* no records and with duration = the time elapsed since create_workflow.
C11_EmptyBatch ==
    /\ (last.op = "get_parallel_efficiency" /\ batches[last.arg].agents = <<>>)
          => (last.err = "none" /\ last.ret = FZero)
    /\ (last.op = "finalize_workflow" /\ batches[last.arg].agents = <<>>)
          => /\ workflows # <<>>
             /\ workflows[Len(workflows)] = last.arg
             /\ batches[last.arg].end_time = Some(now)
             /\ batches[last.arg].duration =
                    Round(now - batches[last.arg].start_time, TicksPerSecond)
             /\ batches[last.arg].total_inputs_size = 0
             /\ batches[last.arg].total_outputs_size = 0

\* the efficiency of a registered batch without records, finalized a tick
\* after its creation, was taken
C11_Witness ==
    /\ last.op = "get_parallel_efficiency"
    /\ last.ret = FZero
    /\ batches[last.arg].agents = <<>>
    /\ workflows = <<last.arg>>
    /\ Positive(batches[last.arg].duration)

\* C12: for a non-empty batch of non-negative durations, at least one of
\* them positive, get_parallel_efficiency returns a value greater than 0 and
\* at most 100.
C12_EfficiencyWithinBounds ==
    LET ds == DurationsOf(last.arg) IN
    (/\ last.op = "get_parallel_efficiency"
     /\ ds # <<>>
     /\ \A i \in 1..Len(ds) : ds[i].n >= 0
     /\ \E i \in 1..Len(ds) : Positive(ds[i]))
    => /\ last.err = "none"
       /\ Positive(last.ret)
       /\ ~FLess(Hundred, last.ret)

---------------------------------------------------------------------------
(* Properties of ExecutionMetrics records.                                 *)

\* C13, as claimed: in every state of a record, duration = end_time -
\* start_time in seconds when end_time is set, and 0 while it is unset.
C13_DurationAlwaysDerived ==
    \A r \in 1..Len(records) :
        IF Truthy(records[r].end_time)
        THEN records[r].duration =
                Round(records[r].end_time[1] - records[r].start_time, TicksPerSecond)
        ELSE records[r].duration = FZero

\* C13, amended: when calculate_duration returns on a record whose end_time
\* is set, duration = end_time - start_time in seconds and that is the value
\* returned; on a record whose end_time is unset the call changes nothing
\* and returns the duration the record was constructed with.
C13_DurationDerivedByCalculate ==
    [][last'.op = "calculate_duration" =>
          LET m == records[last'.arg]
              m2 == records'[last'.arg]
          IN  /\ Truthy(m.end_time) =>
                    m2 = [m EXCEPT !.duration =
                             Round(m.end_time[1] - m.start_time, TicksPerSecond)]
              /\ ~Truthy(m.end_time) => m2 = m
              /\ last'.ret = m2.duration
              /\ \A o \in 1..Len(records) : o # last'.arg => records'[o] = records[o]
              /\ batches' = batches]_vars

\* calculate_duration ran on a record constructed with duration 0.0 whose
\* end_time is 2 seconds after its start_time
C13_Witness ==
    /\ last.op = "calculate_duration"
    /\ records[last.arg].end_time = Some(records[last.arg].start_time + 2 * TicksPerSecond)
    /\ records[last.arg].duration = FromInt(2)
    /\ last.ret = FromInt(2)

\* C14: a duration that is computed is never negative: when end_time is
\* earlier than start_time the computation stores 0.
C14_ComputedDurationNotNegative ==
    last.op = "calculate_duration" => records[last.arg].duration.n >= 0

\* C15: a record's error_message is non-empty exactly when its success is
\* false.
C15_ErrorMessageIffFailure ==
    \A r \in 1..Len(records) :
        (records[r].error_message # "") <=> ~records[r].success

\* C17: a record with a negative size is rejected by add_agent_metrics, so a
\* batch's size totals are never negative.
C17_TotalsNotNegative ==
    \A b \in 1..Len(batches) :
        batches[b].total_inputs_size >= 0 /\ batches[b].total_outputs_size >= 0

---------------------------------------------------------------------------
(* Properties of the summary.                                              *)

\* C18: for every registry state get_summary returns total_workflows = the
\* number of registered batches, total_agents_executed = the sum of their
\* record counts, total_time = the sum of their durations, and workflows =
\* the serialized batches in registration order.
C18_SummaryTotals ==
    last.op = "get_summary" =>
        /\ last.err = "none"
        /\ last.ret.total_workflows = Len(workflows)
        /\ last.ret.total_agents_executed =
              SumSeq([i \in 1..Len(workflows) |-> Len(batches[workflows[i]].agents)])
        /\ last.ret.total_time =
              PrefixSum([i \in 1..Len(workflows) |-> batches[workflows[i]].duration],
                        Len(workflows))
        /\ last.ret.workflows =
              [i \in 1..Len(workflows) |-> to_dict(batches[workflows[i]], records).ret]

\* C19: get_summary is a pure read: it changes no record, no batch and not
\* the registry, a second get_summary right after it returns the same, and
\* the summary save_metrics writes right after it is the one it returned.
C19_SummaryIsPureRead ==
    [][/\ last'.op = "get_summary" =>
             /\ records' = records /\ batches' = batches /\ workflows' = workflows
             /\ last.op = "get_summary" => last' = last
       /\ (last.op = "get_summary" /\ last'.op = "save_metrics") =>
             /\ last'.err = last.err
             /\ last.err = "none" => last'.ret = <<"json", last.ret>>]_vars

\* get_summary returned the summary of a registry of two batches, one of
\* them holding two records
C19_Witness ==
    /\ last.op = "get_summary" /\ last.err = "none"
    /\ last.ret.total_workflows = 2
    /\ last.ret.total_agents_executed = 2

---------------------------------------------------------------------------
(* Properties of the parallel phase.                                       *)

Failed(u) == futures[u].state = "finished" /\ Truthy(futures[u].exception)

\* C16: when a dispatched unit fails, a record for that unit exists with
\* success = false and error_message set.
C16_FailureRecorded ==
    \A u \in UnitSet :
        Failed(u) =>
            \E r \in 1..Len(records) :
                /\ records[r].agent_name = AgentName(u)
                /\ ~records[r].success
                /\ records[r].error_message # ""

\* C20: run_parallel_agents returns a result only when all three units have
\* completed, and the mapping it returns holds the result of each of them.
C20_JoinIsFullBarrier ==
    (Truthy(outcome) /\ outcome[1].err = "none") =>
        /\ \A u \in UnitSet : futures[u].state = "finished" /\ ~Truthy(futures[u].exception)
        /\ DOMAIN outcome[1].ret = {ResultKey(i) : i \in 1..Len(Units)}
        /\ \A i \in 1..Len(Units) : outcome[1].ret[ResultKey(i)] = ResultOf(Units[i])

\* the function returned after the workers finished in the reverse of the
\* submission order
C20_Witness ==
    /\ Truthy(outcome) /\ outcome[1].err = "none"
    /\ \E i, j, k \in 1..Len(log) :
          /\ i < j /\ j < k
          /\ log[i] = LogRecord("INFO", "completed successfully", AgentName(Units[3]))
          /\ log[j] = LogRecord("INFO", "completed successfully", AgentName(Units[2]))
          /\ log[k] = LogRecord("INFO", "completed successfully", AgentName(Units[1]))

\* C22: when more than one unit fails, the error run_parallel_agents raises
\* is the error of the unit that failed first in time.
C22_FirstFailureWins ==
    (Truthy(outcome) /\ outcome[1].err # "none") =>
        \E i \in 1..Len(log), u \in UnitSet :
            /\ log[i] = LogRecord("ERROR", "failed with error", AgentName(u))
            /\ \A j \in 1..(i - 1) : log[j].level # "ERROR"
            /\ outcome[1].err = ErrorOf(u)

\* C25: no program state is written by more than one thread.  A step of a
\* worker (one that leaves the main thread where it is) changes the Future
\* of that worker's own task and nothing else: not parallel_results, not
\* the pending exception or the outcome, no other Future, no metrics record,
\* batch or registry.  parallel_results changes only in steps of the joining
\* thread.  (The logger, which serializes its writers, is not program state.)
C25_WorkersWriteOwnFutureOnly ==
    [][/\ (pc' = pc /\ futures' # futures) =>
             /\ \E u \in UnitSet :
                   /\ futures[u].state \in {"pending", "running"}
                   /\ \A v \in UnitSet \ {u} : futures'[v] = futures[v]
             /\ parallel_results' = parallel_results
             /\ exc' = exc /\ outcome' = outcome
       /\ parallel_results' # parallel_results => pc' # pc
       /\ records' = records /\ batches' = batches /\ workflows' = workflows]_vars

\* two workers are still running while the joining thread has stored the
\* result of the first
C25_Witness ==
    /\ DOMAIN parallel_results = {ResultKey(1)}
    /\ futures[Units[2]].state = "running"
    /\ futures[Units[3]].state = "running"

\* C27: an exception leaves run_parallel_agents only after all three
\* submitted units have finished, each by returning or by raising: none is
\* left pending or running and none is cancelled.
C27_ExceptionAfterAllFinished ==
    (Truthy(outcome) /\ outcome[1].err # "none") =>
        \A u \in UnitSet :
            /\ futures[u].state = "finished"
            /\ Truthy(futures[u].result) # Truthy(futures[u].exception)

\* the first unit failed before the third was even started; the third still
\* ran to completion before the exception reached the caller
C27_Witness ==
    /\ Truthy(outcome) /\ outcome[1].err = ErrorOf(Units[1])
    /\ \E i, j, k \in 1..Len(log) :
          /\ i < j /\ j < k
          /\ log[i] = LogRecord("ERROR", "failed with error", AgentName(Units[1]))
          /\ log[j] = LogRecord("INFO", "Starting agent", AgentName(Units[3]))
          /\ log[k] = LogRecord("INFO", "completed successfully", AgentName(Units[3]))

\* C28: when every thread is scheduled fairly and each of the three units
\* terminates, run_parallel_agents eventually returns or raises.
C28_RunParallelTerminates == <>Truthy(outcome)

\* the function has handed an outcome to its caller and all workers are done
C28_Witness ==
    /\ pc = At("done", 0)
    /\ Truthy(outcome)
    /\ \A u \in UnitSet : futures[u].state = "finished"

---------------------------------------------------------------------------
(* Properties of the serial phase and of main().                           *)

\* C26: run_serial_agents makes a fixed sequence of calls: the school agent
\* once, then the course agent once per target program in list order, each
\* call starting after the previous one returned; a call that raises is the
\* last event (no retry, no later call), and the function returns only
\* after every call returned.
C26_SerialIsFixedSequence ==
    /\ Len(serial_calls) <= 2 * (Len(target_programs) + 1)
    /\ \A j \in 1..Len(serial_calls) :
          LET k == (j - 1) \div 2 IN
          /\ serial_calls[j].unit =
                IF k = 0 THEN "get_school_recommendations" ELSE "get_course_recommendations"
          /\ serial_calls[j].program = IF k = 0 THEN None ELSE Some(target_programs[k])
          /\ IF j % 2 = 1 THEN serial_calls[j].event = "start"
             ELSE serial_calls[j].event \in {"return", "raise"}
          /\ serial_calls[j].event = "raise" => j = Len(serial_calls)
    /\ spc.step = "return" =>
          /\ Len(serial_calls) = 2 * (Len(target_programs) + 1)
          /\ serial_calls[Len(serial_calls)].event = "return"
          /\ DOMAIN serial_results["course_recommendations"] =
                {target_programs[i] : i \in 1..Len(target_programs)}
    /\ spc.step = "raised" => serial_calls[Len(serial_calls)].event = "raise"

\* the function returned for a student with two different target programs
C26_Witness ==
    /\ spc.step = "return"
    /\ Len(target_programs) = 2 /\ target_programs[1] # target_programs[2]
    /\ Len(serial_calls) = 6

\* C21: the parallel join is fail-fast.  If any of the three units failed,
\* run_parallel_agents hands its caller an exception and no result mapping,
\* and main() ends by raising that exception again with no report file and
\* no JSON file written.
C21_ParallelFailureAborts ==
    (\E u \in UnitSet : Failed(u)) =>
        /\ Truthy(outcome) => (outcome[1].err # "none" /\ outcome[1].ret = <<>>)
        /\ files = {}
        /\ mainpc \in {"parallel", "except", "done"}
        /\ mainpc \in {"except", "done"} => (Truthy(outcome) /\ raised = Some(outcome[1].err))

\* main() has ended: the second unit failed after the result of the first
\* had been stored, and the error of the second unit was raised again
C21_Witness ==
    /\ mainpc = "done"
    /\ Failed(Units[2])
    /\ DOMAIN parallel_results = {ResultKey(1)}
    /\ raised = Some(ErrorOf(Units[2]))

SerialReturned == spc.step = "return"
ParallelReturned == Truthy(outcome) /\ outcome[1].err = "none"

\* C30: main() runs its phases in a fixed order and fails as a whole.  No
\* serial call is made before the agent is constructed; no parallel unit is
\* dispatched before run_serial_agents returned; the report is generated
\* and files are written only after both phases returned; a failure of the
\* construction, of the serial phase or of the parallel phase leaves every
\* later phase untouched and is what main() raises at its end.
C30_PhasesInOrder ==
    /\ (spc # At("entry", 0)) => mainpc # "init_agent" /\ raised # Some("ValueError")
    /\ (pc # At("entry", 0)) => SerialReturned
    /\ (mainpc \in {"report", "write_report", "write_json"} \/ files # {}) =>
          SerialReturned /\ ParallelReturned
    /\ raised = Some("ValueError") =>
          /\ spc = At("entry", 0) /\ serial_calls = <<>>
          /\ pc = At("entry", 0) /\ files = {}
    /\ spc.step = "raised" =>
          /\ pc = At("entry", 0) /\ files = {}
          /\ \A u \in UnitSet : futures[u].state = "unsubmitted"
          /\ mainpc \in {"serial", "except", "done"}
          /\ mainpc # "serial" => raised = Some(SerialError(spc.i))
    /\ (Truthy(outcome) /\ outcome[1].err # "none") =>
          /\ files = {}
          /\ mainpc \in {"parallel", "except", "done"}
          /\ mainpc # "parallel" => raised = Some(outcome[1].err)
    /\ mainpc = "done" =>
          \/ Truthy(raised)
          \/ /\ SerialReturned /\ ParallelReturned
             /\ files = {File(ReportFile, TRUE), File(JsonFile, TRUE)}

\* main() has ended raising the error of the course agent's first call: no
\* parallel unit was dispatched and no file was written
C30_Witness ==
    /\ mainpc = "done"
    /\ raised = Some("course error")
    /\ Len(serial_calls) = 4
    /\ pc = At("entry", 0)
    /\ files = {}

---------------------------------------------------------------------------
(* Further properties of batches.                                          *)

\* C23: the records of a batch are kept in call order.  Every
\* add_agent_metrics call extends agents at its end by the record it was
\* given, and no other step changes agents; so agents is always the
\* sequence of the added records in the order of the calls.
C23_AgentsInCallOrder ==
    [][\A b \in 1..Len(batches) :
          \/ batches'[b].agents = batches[b].agents
          \/ /\ last'.op = "add_agent_metrics"
             /\ last'.arg[1] = b
             /\ batches'[b].agents = Append(batches[b].agents, last'.arg[2])]_vars

\* three adds, the second record first and added again after the first
C23_Witness ==
    /\ last.op = "add_agent_metrics"
    /\ batches[1].agents = <<2, 1, 2>>

\* C29: a batch's success flag is never derived from its records: through
\* create_workflow, add_agent_metrics and finalize_workflow calls every
\* batch keeps success = true and an empty error_message, also when failed
\* records are added, and the summary reports workflow_success = true.
C29_BatchSuccessNeverDerived ==
    /\ \A b \in 1..Len(batches) : batches[b].success /\ batches[b].error_message = ""
    /\ (last.op = "get_summary" /\ last.err = "none") =>
          \A i \in 1..Len(last.ret.workflows) :
              /\ last.ret.workflows[i].workflow_success
              /\ last.ret.workflows[i].error_message = ""

\* the summary of a registered batch that holds a failed record
C29_Witness ==
    /\ last.op = "get_summary" /\ last.err = "none"
    /\ workflows # <<>>
    /\ \E r \in 1..Len(records) :
          /\ ~records[r].success /\ records[r].error_message = "API error"
          /\ batches[workflows[1]].agents = <<r>>
    /\ last.ret.workflows[1].workflow_success

---------------------------------------------------------------------------
(* Properties of the record kind.                                          *)

AnyParallel(b) ==
    \E i \in 1..Len(batches[b].agents) : records[batches[b].agents[i]].agent_type = "parallel"

WithoutKind(lines) == [i \in 1..Len(lines) |-> [lines[i] EXCEPT !.kind = ""]]
LineSet(lines) == {lines[i] : i \in 1..Len(lines)}
IsEfficiencyLine(l) == l.text = "Parallel Efficiency"
Core(lines) == SelectSeq(WithoutKind(lines), LAMBDA l : ~IsEfficiencyLine(l))

\* what does not depend on the kinds: totals, efficiency, summary counts
SameNumbers(b, o) ==
    /\ batches[b].total_inputs_size = batches[o].total_inputs_size
    /\ batches[b].total_outputs_size = batches[o].total_outputs_size
    /\ get_parallel_efficiency(batches[b], records) = get_parallel_efficiency(batches[o], records)
    /\ LET sb == get_summary(<<b>>, batches, records)
           so == get_summary(<<o>>, batches, records)
       IN  /\ sb.err = so.err
           /\ sb.err = "none" =>
                 /\ sb.ret.total_workflows = so.ret.total_workflows
                 /\ sb.ret.total_agents_executed = so.ret.total_agents_executed
                 /\ sb.ret.total_time = so.ret.total_time

\* C24, as claimed: two batches that differ only in the kinds of their
\* records have the same totals, efficiency and summary counts, and their
\* printed summaries are the same set of lines apart from the kind labels.
C24_KindIsClassificationOnly ==
    last.op = "print_workflow_summary" =>
        LET o == 3 - last.arg
            other == print_workflow_summary(batches[o], records)
        IN  /\ SameNumbers(last.arg, o)
            /\ last.err = other.err
            /\ LineSet(WithoutKind(last.ret)) = LineSet(WithoutKind(other.ret))

\* C24, amended: the totals, the efficiency and the summary counts do not
\* depend on the kinds.  The printed summary does: the Parallel Efficiency
\* line is printed exactly for a batch with at least one PARALLEL record,
\* and when computing it raises, the print ends there with that error.
\* Apart from that line and the kind labels the two summaries print the
\* same lines in the same order, as far as both get.
C24_KindDecidesEfficiencyLine ==
    last.op = "print_workflow_summary" =>
        LET o == 3 - last.arg
            other == print_workflow_summary(batches[o], records)
            eff == get_parallel_efficiency(batches[last.arg], records)
            mine == Core(last.ret)
            theirs == Core(other.ret)
            m == IF Len(mine) < Len(theirs) THEN Len(mine) ELSE Len(theirs)
        IN  /\ SameNumbers(last.arg, o)
            /\ last.err = IF AnyParallel(last.arg) THEN eff.err ELSE "none"
            /\ last.err = "none" =>
                  ((\E i \in 1..Len(last.ret) : IsEfficiencyLine(last.ret[i])) <=> AnyParallel(last.arg))
            /\ last.err # "none" => Len(last.ret) = 7
            /\ SubSeq(mine, 1, m) = SubSeq(theirs, 1, m)
            /\ (last.err = "none" /\ other.err = "none") => Len(mine) = Len(theirs)

\* the summary of a batch with a PARALLEL record was printed with its
\* efficiency line, while the same batch with SERIAL records prints none
C24_Witness ==
    /\ last.op = "print_workflow_summary" /\ last.err = "none"
    /\ Len(batches[last.arg].agents) = 2
    /\ AnyParallel(last.arg) /\ ~AnyParallel(3 - last.arg)
    /\ \E i \in 1..Len(last.ret) : IsEfficiencyLine(last.ret[i])
    /\ \A i \in 1..Len(print_workflow_summary(batches[3 - last.arg], records).ret) :
          ~IsEfficiencyLine(print_workflow_summary(batches[3 - last.arg], records).ret[i])

====
